---- MODULE Spec2Model ----
(***************************************************************************)
(* Conversation and message management of the marketplace backend          *)
(* (src/core/models/chat.py, src/core/serializers/chat_serializers.py,     *)
(* src/core/views/chat_views.py).                                          *)
(*                                                                         *)
(* The database tables are the variables convs, participants, settings     *)
(* and messages.  Every request runs in one of NumProcs request slots; a   *)
(* request whose code issues several autocommitted statements is a         *)
(* sequence of steps (pc), so that other requests interleave between its   *)
(* statements.  The body of a transaction.atomic() block becomes visible   *)
(* in one step, at its commit.                                             *)
(*                                                                         *)
(* The specifications share the actions: Spec runs both ways of creating   *)
(* a conversation concurrently from the empty database, SeqSpec runs       *)
(* requests one at a time, MsgSpec runs the posting endpoints concurrently *)
(* on a conversation the serializer has created, OfferSpec runs the price  *)
(* offers alone, ClockSpec runs posts with the clock read and the write of *)
(* last_message_at as separate steps, EditSpec runs edits, deletes and     *)
(* single reads on a conversation with one message, and ReadSpec runs      *)
(* posts and read-marking on two conversations.  FavSpec and ImageSpec run *)
(* the favorites and the image saves of the product catalogue              *)
(* (src/core/models/product.py, src/core/views/product_views.py).  The     *)
(* variable last records the latest response sent.                         *)
(***************************************************************************)
EXTENDS Integers, Sequences, FiniteSets, TLC

\* ---------------------------------------------------------------- bounds
NumProcs == 2
MaxConvs == 2
MaxMsgs == 2
MaxTime == 2

\* ---------------------------------------------------------------- inputs
Procs == 1..NumProcs
Users == {"u1", "u2", "u3"}
NoUser == "nobody"
\* the users who open conversations; "u3" only ever tries to join in
Members == {"u1", "u2"}
Products == {"p1"}
NoProduct == "none"
ProductValues == Products \cup {NoProduct}
\* the seller of every product of the catalogue (Product.seller); the
\* products are all active, so validate_related_product accepts them
Seller == [pr \in Products |-> "u2"]

\* text is a sequence of characters; " " is the only whitespace used
Texts == {<< >>, <<" ">>, <<" ", "a">>}
NoText == <<"<absent>">>
Notes == {NoText, <<" ">>}
\* the notes of the price offers of OfferSpec
OfferNotes == Notes \cup {<<" ", "n">>}
\* amounts of money count thousandths: 5000 is 5.00 and 5 is 0.005
Amounts == {0, 5, 5000}
Locations == {<<"g">>}
MessageTypes == {"text"}

VARIABLES convs, participants, settings, messages, now, pc, req, last,
          favorites, favorite_count, images

vars == <<convs, participants, settings, messages, now, pc, req, last,
          favorites, favorite_count, images>>
db == <<convs, participants, settings, messages>>
\* the tables of the product catalogue: the ProductFavorite rows,
\* Product.favorite_count and the ProductImage rows
catalog == <<favorites, favorite_count, images>>

\* ------------------------------------------------------------- helpers
ConvIds == 1..Len(convs)
MsgIds == 1..Len(messages)

RECURSIVE LStrip(_)
LStrip(s) == IF s # << >> /\ Head(s) = " " THEN LStrip(Tail(s)) ELSE s

RECURSIVE RStrip(_)
RStrip(s) ==
  IF s # << >> /\ s[Len(s)] = " " THEN RStrip(SubSeq(s, 1, Len(s) - 1)) ELSE s

\* str.strip()
Strip(s) == RStrip(LStrip(s))

ParticipantsOf(c) == {u \in Users : <<c, u>> \in participants}
SettingsOf(c) == {u \in Users : <<c, u>> \in settings}
MessagesOf(c) == {m \in MsgIds : messages[m].conversation = c}

\* a row that is inserted as already read
NewMessage_BornRead(conversation, sender, message_type, content, offer_amount, location, created) ==
  [conversation |-> conversation, sender |-> sender,
   message_type |-> message_type, content |-> content,
   offer_amount |-> offer_amount, location |-> location,
   is_read |-> TRUE, read_at |-> 0, is_edited |-> FALSE,
   is_deleted |-> FALSE, created_at |-> created]

\* a Message row as Message.objects.create / MessageCreateSerializer.create
\* insert it; time 0 is NULL
NewMessage(conversation, sender, message_type, content, offer_amount, location, created) ==
  [conversation |-> conversation, sender |-> sender,
   message_type |-> message_type, content |-> content,
   offer_amount |-> offer_amount, location |-> location,
   is_read |-> FALSE, read_at |-> 0, is_edited |-> FALSE,
   is_deleted |-> FALSE, created_at |-> created]

\* no row loaded
NoRow == NewMessage(0, NoUser, "none", << >>, 0, << >>, 0)

\* what a request in progress holds: its arguments and, for an edit, the
\* copy of the row that get_object() loaded
NoReq ==
  [op |-> "none", user1 |-> NoUser, user2 |-> NoUser, product |-> NoProduct,
   conv |-> 0, msg |-> 0, text |-> NoText, t |-> 0, row |-> NoRow]
NoLast ==
  [op |-> "none", user |-> NoUser, conv |-> 0, msg |-> 0, status |-> "none"]

\* the response to a request about message msg of conversation conv
RespondMsg(op, user, conv, msg, status) ==
  last' = [op |-> op, user |-> user, conv |-> conv, msg |-> msg,
           status |-> status]

Respond(op, user, conv, status) == RespondMsg(op, user, conv, 0, status)

Finish(p) == pc' = [pc EXCEPT ![p] = "idle"] /\ req' = [req EXCEPT ![p] = NoReq]

\* ------------------------------------------------- conversation lookup
\* the lookup with its second participant filter left out
FindExisting_OneFilter(user1, user2, product) ==
  {c \in ConvIds : /\ <<c, user1>> \in participants
                   /\ convs[c].related_product = product}

\* Conversation.objects.filter(participants=user1, related_product=product)
\*                     .filter(participants=user2)
FindExisting(user1, user2, product) ==
  {c \in ConvIds : /\ <<c, user1>> \in participants
                   /\ convs[c].related_product = product
                   /\ <<c, user2>> \in participants}

\* Conversation.Meta.ordering = ['-last_message_at', '-created_at']; where a
\* NULL last_message_at sorts is the database's choice (first on PostgreSQL,
\* last on SQLite), and rows with equal keys come in any order.
Precedes(c, d, nullsFirst) ==
  LET lc == convs[c].last_message_at
      ld == convs[d].last_message_at
  IN  IF lc = ld THEN convs[c].created_at >= convs[d].created_at
      ELSE IF lc = 0 THEN nullsFirst
      ELSE IF ld = 0 THEN ~nullsFirst
      ELSE lc > ld

\* the rows .first() may return
FirstOf(S) ==
  {c \in S : \E nf \in BOOLEAN : \A d \in S : Precedes(c, d, nf)}

NewConversation(product, created) ==
  [related_product |-> product, is_active |-> TRUE, created_at |-> created,
   last_message_at |-> 0]

\* ------------------------------------------ get_or_create_conversation
HelperLookup(p, user1, user2, product) ==
  /\ pc[p] = "idle"
  /\ LET existing == FindExisting(user1, user2, product)
     IN  IF existing # {}
         THEN /\ \E c \in FirstOf(existing) :
                   Respond("get_or_create_conversation", user1, c, "found")
              /\ UNCHANGED <<db, now, catalog, pc, req>>
         ELSE /\ pc' = [pc EXCEPT ![p] = "h_insert"]
              /\ req' = [req EXCEPT ![p] =
                           [NoReq EXCEPT !.op = "get_or_create_conversation",
                                         !.user1 = user1, !.user2 = user2,
                                         !.product = product]]
              /\ UNCHANGED <<db, now, catalog, last>>

\* Conversation.objects.create(related_product=product)
HelperInsert(p) ==
  /\ pc[p] = "h_insert"
  /\ Len(convs) < MaxConvs
  /\ convs' = Append(convs, NewConversation(req[p].product, now))
  /\ req' = [req EXCEPT ![p].conv = Len(convs) + 1]
  /\ pc' = [pc EXCEPT ![p] = "h_add"]
  /\ UNCHANGED <<participants, settings, messages, now, catalog, last>>

\* conversation.participants.add(user1, user2)
HelperAdd(p) ==
  /\ pc[p] = "h_add"
  /\ participants' = participants \cup
       {<<req[p].conv, req[p].user1>>, <<req[p].conv, req[p].user2>>}
  /\ pc' = [pc EXCEPT ![p] = "h_set1"]
  /\ UNCHANGED <<convs, settings, messages, now, catalog, req, last>>

\* ConversationParticipant.objects.create(conversation=..., user=user1)
HelperSettings1(p) ==
  /\ pc[p] = "h_set1"
  /\ settings' = settings \cup {<<req[p].conv, req[p].user1>>}
  /\ pc' = [pc EXCEPT ![p] = "h_set2"]
  /\ UNCHANGED <<convs, participants, messages, now, catalog, req, last>>

\* ConversationParticipant.objects.create(conversation=..., user=user2);
\* unique_together = ['conversation', 'user'] refuses a second row
HelperSettings2(p) ==
  /\ pc[p] = "h_set2"
  /\ IF <<req[p].conv, req[p].user2>> \in settings
     THEN /\ Respond("get_or_create_conversation", req[p].user1, req[p].conv,
                     "integrity_error")
          /\ UNCHANGED settings
     ELSE /\ settings' = settings \cup {<<req[p].conv, req[p].user2>>}
          /\ Respond("get_or_create_conversation", req[p].user1, req[p].conv,
                     "created")
  /\ Finish(p)
  /\ UNCHANGED <<convs, participants, messages, now, catalog>>

\* ------------------------------------- ConversationCreateSerializer.create
\* serializers.CharField: trim_whitespace=True, allow_blank=False
CharFieldValid(text) == Strip(text) # << >>

\* the other participant create() settles on (NoUser: none)
OtherUser(current_user, other_user_id, related_product) ==
  IF related_product # NoProduct THEN Seller[related_product] ELSE other_user_id

\* field validation, the caller-is-seller check and the lookup of an existing
\* conversation; all of it reads only, outside the transaction
SerializerCreate(p, current_user, other_user_id, related_product, initial_message) ==
  /\ pc[p] = "idle"
  /\ LET other_user == OtherUser(current_user, other_user_id, related_product)
         rejected ==
           \/ initial_message # NoText /\ ~CharFieldValid(initial_message)
           \/ related_product # NoProduct /\ Seller[related_product] = current_user
           \/ other_user = NoUser
         existing == FindExisting(current_user, other_user, related_product)
     IN  IF rejected
         THEN /\ Respond("conversation_create", current_user, 0, "invalid")
              /\ UNCHANGED <<db, now, catalog, pc, req>>
         ELSE IF existing # {}
         THEN /\ \E c \in FirstOf(existing) :
                   Respond("conversation_create", current_user, c, "found")
              /\ UNCHANGED <<db, now, catalog, pc, req>>
         ELSE /\ pc' = [pc EXCEPT ![p] = "s_txn"]
              /\ req' = [req EXCEPT ![p] =
                           [NoReq EXCEPT !.op = "conversation_create",
                                         !.user1 = current_user,
                                         !.user2 = other_user,
                                         !.product = related_product,
                                         !.text = IF initial_message = NoText
                                                  THEN NoText
                                                  ELSE Strip(initial_message)]]
              /\ UNCHANGED <<db, now, catalog, last>>

\* the inserts inside transaction.atomic(): the rows get their created_at
\* here and stay invisible to other requests until the commit
SerializerTxn(p) ==
  /\ pc[p] = "s_txn"
  /\ req' = [req EXCEPT ![p].t = now]
  /\ pc' = [pc EXCEPT ![p] = "s_commit"]
  /\ UNCHANGED <<db, now, catalog, last>>

\* end of the atomic block: conversation, participant links, one settings
\* row per participant, the initial message and (Message.save) the
\* conversation's last_message_at appear together
SerializerCommit(p) ==
  /\ pc[p] = "s_commit"
  /\ Len(convs) < MaxConvs
  /\ req[p].text # NoText => Len(messages) < MaxMsgs
  /\ LET c == Len(convs) + 1
         both == {<<c, req[p].user1>>, <<c, req[p].user2>>}
         conv == NewConversation(req[p].product, req[p].t)
     IN  /\ participants' = participants \cup both
         /\ settings' = settings \cup both
         /\ IF req[p].text # NoText
            THEN /\ messages' = Append(messages,
                      NewMessage(c, req[p].user1,
                                 IF req[p].product # NoProduct
                                 THEN "product_inquiry" ELSE "text",
                                 req[p].text, 0, << >>, req[p].t))
                 /\ convs' = Append(convs, [conv EXCEPT !.last_message_at = now])
            ELSE /\ messages' = messages
                 /\ convs' = Append(convs, conv)
         /\ Respond("conversation_create", req[p].user1, c, "created")
  /\ Finish(p)
  /\ UNCHANGED <<now, catalog>>

\* -------------------------------------------------------- posting messages
\* ConversationViewSet.get_queryset: the conversations get_object() finds
VisibleConversations(user) == {c \in ConvIds : <<c, user>> \in participants}

\* the participant test answering yes for everybody
IsParticipant_Anyone(c, user) == c \in ConvIds

\* conversation.participants.filter(id=request.user.id).exists()
IsParticipant(c, user) == <<c, user>> \in participants

\* MessageCreateSerializer: the content field (blank refused), then
\* validate_content
ContentValid(content) == content # << >> /\ Strip(content) # << >>

\* MessageCreateSerializer.validate
MessageCreateValid(c, user) == IsParticipant(c, user) /\ convs[c].is_active

\* Message.save, first half: the INSERT of the row (created_at = now); its
\* second half, update_last_message_time, is the step TouchConversation
InsertMessage(p, op, message) ==
  /\ Len(messages) < MaxMsgs
  /\ messages' = Append(messages, message)
  /\ pc' = [pc EXCEPT ![p] = "m_touch"]
  /\ req' = [req EXCEPT ![p] =
               [NoReq EXCEPT !.op = op, !.user1 = message.sender,
                             !.conv = message.conversation,
                             !.msg = Len(messages) + 1]]
  /\ UNCHANGED <<convs, participants, settings, now, catalog, last>>

Reject(op, user, c, status) ==
  /\ Respond(op, user, c, status)
  /\ UNCHANGED <<db, now, catalog, pc, req>>

\* ConversationViewSet.send_message
SendMessage(p, user, c, content, message_type) ==
  /\ pc[p] = "idle"
  /\ IF c \notin VisibleConversations(user)
     THEN Reject("send_message", user, c, "not_found")
     ELSE IF ~IsParticipant(c, user)
     THEN Reject("send_message", user, c, "forbidden")
     ELSE IF ~ContentValid(content) \/ ~MessageCreateValid(c, user)
     THEN Reject("send_message", user, c, "invalid")
     ELSE InsertMessage(p, "send_message",
            NewMessage(c, user, message_type, Strip(content), 0, << >>, now))

\* MessageViewSet.create
MessageCreate(p, user, c, content, message_type) ==
  /\ pc[p] = "idle"
  /\ IF ~ContentValid(content) \/ ~MessageCreateValid(c, user)
     THEN Reject("message_create", user, c, "invalid")
     ELSE IF ~IsParticipant(c, user)
     THEN Reject("message_create", user, c, "forbidden")
     ELSE InsertMessage(p, "message_create",
            NewMessage(c, user, message_type, Strip(content), 0, << >>, now))

\* f"I'd like to offer R{offer_amount} for this item."
OfferText(offer_amount) == <<"I'd like to offer R", offer_amount, " for this item.">>

\* f"Let's meet at {location}"
MeetupText(location) == <<"Let's meet at ">> \o location

\* OfferMessageSerializer.validate_offer_amount
\* the check of the amount that lets zero pass
OfferAmountValid_NonNegative(offer_amount) ==
  offer_amount % 10 = 0 /\ offer_amount >= 0

\* DecimalField(max_digits=10, decimal_places=2) refuses an amount with more
\* than two decimal places (and one of more than ten digits, beyond the
\* amounts used here); validate_offer_amount refuses value <= 0
OfferAmountValid(offer_amount) ==
  offer_amount % 10 = 0 /\ offer_amount > 0

\* validated_data.get('message', default): the note is an optional CharField
\* with allow_blank=True (trimmed), the default is used only when it is absent
NoteOr(note, default) == IF note = NoText THEN default ELSE Strip(note)

\* ConversationViewSet.send_price_offer
SendPriceOffer(p, user, c, offer_amount, note) ==
  /\ pc[p] = "idle"
  /\ IF c \notin VisibleConversations(user)
     THEN Reject("send_price_offer", user, c, "not_found")
     ELSE IF ~IsParticipant(c, user)
     THEN Reject("send_price_offer", user, c, "forbidden")
     ELSE IF ~OfferAmountValid(offer_amount)
     THEN Reject("send_price_offer", user, c, "invalid")
     ELSE InsertMessage(p, "send_price_offer",
            NewMessage(c, user, "price_offer",
                       NoteOr(note, OfferText(offer_amount)),
                       offer_amount, << >>, now))

\* ConversationViewSet.send_meetup_request
SendMeetupRequest(p, user, c, location, note) ==
  /\ pc[p] = "idle"
  /\ IF c \notin VisibleConversations(user)
     THEN Reject("send_meetup_request", user, c, "not_found")
     ELSE IF ~IsParticipant(c, user)
     THEN Reject("send_meetup_request", user, c, "forbidden")
     ELSE IF ~CharFieldValid(location)
     THEN Reject("send_meetup_request", user, c, "invalid")
     ELSE InsertMessage(p, "send_meetup_request",
            NewMessage(c, user, "meeting_request",
                       NoteOr(note, MeetupText(Strip(location))),
                       0, Strip(location), now))

\* Conversation.update_last_message_time, called at the end of Message.save,
\* with its clock read and its write in one step; ClockSpec takes the two
\* apart (TouchRead, TouchWrite)
TouchConversation(p) ==
  /\ pc[p] = "m_touch"
  /\ convs' = [convs EXCEPT ![req[p].conv].last_message_at = now]
  /\ RespondMsg(req[p].op, req[p].user1, req[p].conv, req[p].msg, "ok")
  /\ Finish(p)
  /\ UNCHANGED <<participants, settings, messages, now, catalog>>

\* update_last_message_time statement by statement: timezone.now() is read
\* into the loaded Conversation first ...
TouchRead(p) ==
  /\ pc[p] = "m_touch"
  /\ pc' = [pc EXCEPT ![p] = "m_save"]
  /\ req' = [req EXCEPT ![p].t = now]
  /\ UNCHANGED <<db, now, catalog, last>>

\* ... and save(update_fields=['last_message_at']) writes that value later
TouchWrite(p) ==
  /\ pc[p] = "m_save"
  /\ convs' = [convs EXCEPT ![req[p].conv].last_message_at = req[p].t]
  /\ RespondMsg(req[p].op, req[p].user1, req[p].conv, req[p].msg, "ok")
  /\ Finish(p)
  /\ UNCHANGED <<participants, settings, messages, now, catalog>>

\* ----------------------------------------- reading, editing and deleting
\* MessageViewSet.get_queryset: the messages get_object() finds
VisibleMessages(user) ==
  {m \in MsgIds : /\ <<messages[m].conversation, user>> \in participants
                  /\ ~messages[m].is_deleted}

RejectMsg(op, user, m, status) ==
  /\ RespondMsg(op, user, IF m \in MsgIds THEN messages[m].conversation ELSE 0,
                m, status)
  /\ UNCHANGED <<db, now, catalog, pc, req>>

\* the sender test passing for everybody
IsSender_Anyone(m, user) == TRUE

\* message.sender != request.user, negated
IsSender(m, user) == messages[m].sender = user

\* mark_read without its test of the sender
MarkRead_NoSenderTest(p, user, m) ==
  /\ pc[p] = "idle"
  /\ IF m \notin VisibleMessages(user)
     THEN RejectMsg("mark_read", user, m, "not_found")
     ELSE IF ~IsParticipant(messages[m].conversation, user)
     THEN RejectMsg("mark_read", user, m, "forbidden")
     ELSE IF messages[m].is_read
     THEN RejectMsg("mark_read", user, m, "ok")
     ELSE /\ pc' = [pc EXCEPT ![p] = "r_write"]
          /\ req' = [req EXCEPT ![p] =
                       [NoReq EXCEPT !.op = "mark_read", !.user1 = user,
                                     !.conv = messages[m].conversation,
                                     !.msg = m]]
          /\ UNCHANGED <<db, now, catalog, last>>

\* MessageViewSet.mark_read up to the test in Message.mark_as_read: the row
\* is loaded, and the decision to write is taken on the loaded copy
MarkRead(p, user, m) ==
  /\ pc[p] = "idle"
  /\ IF m \notin VisibleMessages(user)
     THEN RejectMsg("mark_read", user, m, "not_found")
     ELSE IF ~IsParticipant(messages[m].conversation, user)
     THEN RejectMsg("mark_read", user, m, "forbidden")
     ELSE IF IsSender(m, user) \/ messages[m].is_read
     THEN RejectMsg("mark_read", user, m, "ok")
     ELSE /\ pc' = [pc EXCEPT ![p] = "r_write"]
          /\ req' = [req EXCEPT ![p] =
                       [NoReq EXCEPT !.op = "mark_read", !.user1 = user,
                                     !.conv = messages[m].conversation,
                                     !.msg = m]]
          /\ UNCHANGED <<db, now, catalog, last>>

\* Message.mark_as_read: self.save(update_fields=['is_read', 'read_at']);
\* Message.save goes on to update_last_message_time
MarkReadWrite(p) ==
  /\ pc[p] = "r_write"
  /\ messages' = [messages EXCEPT ![req[p].msg].is_read = TRUE,
                                  ![req[p].msg].read_at = now]
  /\ pc' = [pc EXCEPT ![p] = "m_touch"]
  /\ UNCHANGED <<convs, participants, settings, now, catalog, req, last>>

\* the UPDATE overwriting every message of the others, read or not
MarkTargets_AlsoRead(c, user) ==
  {m \in MessagesOf(c) : messages[m].sender # user}

\* self.messages.filter(is_read=False).exclude(sender=user)
MarkTargets(c, user) ==
  {m \in MessagesOf(c) : ~messages[m].is_read /\ messages[m].sender # user}

\* Conversation.mark_as_read_for_user: one UPDATE statement
MarkAsReadForUser(c, user) ==
  messages' = [m \in MsgIds |->
                 IF m \in MarkTargets(c, user)
                 THEN [messages[m] EXCEPT !.is_read = TRUE, !.read_at = now]
                 ELSE messages[m]]

\* the detail view that only reads
MarkAllRead_RetrieveReadOnly(p, op, user, c) ==
  /\ pc[p] = "idle"
  /\ IF c \notin VisibleConversations(user)
     THEN Reject(op, user, c, "not_found")
     ELSE IF op = "mark_as_read" /\ ~IsParticipant(c, user)
     THEN Reject(op, user, c, "forbidden")
     ELSE /\ IF op = "retrieve"
             THEN messages' = messages
             ELSE MarkAsReadForUser(c, user)
          /\ Respond(op, user, c, "ok")
          /\ UNCHANGED <<convs, participants, settings, now, catalog, pc, req>>

\* ConversationViewSet.mark_as_read (op = "mark_as_read") and
\* ConversationViewSet.retrieve (op = "retrieve"), which marks before it
\* serialises the conversation
MarkAllRead(p, op, user, c) ==
  /\ pc[p] = "idle"
  /\ IF c \notin VisibleConversations(user)
     THEN Reject(op, user, c, "not_found")
     ELSE IF op = "mark_as_read" /\ ~IsParticipant(c, user)
     THEN Reject(op, user, c, "forbidden")
     ELSE /\ MarkAsReadForUser(c, user)
          /\ Respond(op, user, c, "ok")
          /\ UNCHANGED <<convs, participants, settings, now, catalog, pc, req>>

\* the count that forgets to leave out the user's own messages
UnreadCount_IncludingOwn(c, user) ==
  Cardinality({m \in MessagesOf(c) : ~messages[m].is_read})

\* Conversation.get_unread_count_for_user
UnreadCount(c, user) ==
  Cardinality({m \in MessagesOf(c) :
                 ~messages[m].is_read /\ messages[m].sender # user})

\* ConversationViewSet.unread_count: the user's total over all conversations
TotalUnreadCount(user) ==
  Cardinality({m \in MsgIds :
                 /\ <<messages[m].conversation, user>> \in participants
                 /\ ~messages[m].is_read
                 /\ messages[m].sender # user})

\* MessageViewSet.update up to serializer.is_valid: get_object() loads the
\* row, only 'content' of the request is kept (NoText: the request has none);
\* the content field of MessageSerializer trims and refuses blank text
EditLoad(p, user, m, content) ==
  /\ pc[p] = "idle"
  /\ IF m \notin VisibleMessages(user)
     THEN RejectMsg("update", user, m, "not_found")
     ELSE IF ~IsSender(m, user)
     THEN RejectMsg("update", user, m, "forbidden")
     ELSE IF content # NoText /\ ~CharFieldValid(content)
     THEN RejectMsg("update", user, m, "invalid")
     ELSE /\ pc' = [pc EXCEPT ![p] = "e_write"]
          /\ req' = [req EXCEPT ![p] =
                       [NoReq EXCEPT !.op = "update", !.user1 = user,
                                     !.conv = messages[m].conversation,
                                     !.msg = m,
                                     !.text = IF content = NoText THEN NoText
                                              ELSE Strip(content),
                                     !.row = messages[m]]]
          /\ UNCHANGED <<db, now, catalog, last>>

\* serializer.save(is_edited=True): ModelSerializer.update sets the
\* attributes on the loaded copy and calls instance.save() without
\* update_fields, which writes every column of the copy; Message.save goes
\* on to update_last_message_time
EditWrite(p) ==
  /\ pc[p] = "e_write"
  /\ messages' =
       [messages EXCEPT ![req[p].msg] =
          [req[p].row EXCEPT !.content = IF req[p].text = NoText THEN @
                                         ELSE req[p].text,
                             !.is_edited = TRUE]]
  /\ pc' = [pc EXCEPT ![p] = "m_touch"]
  /\ UNCHANGED <<convs, participants, settings, now, catalog, req, last>>

\* MessageViewSet.destroy: the sender's request reaches
\* message.soft_delete(), a method Message does not define, and ends in an
\* AttributeError (HTTP 500) with nothing written
Destroy(p, user, m) ==
  /\ pc[p] = "idle"
  /\ IF m \notin VisibleMessages(user)
     THEN RejectMsg("destroy", user, m, "not_found")
     ELSE IF ~IsSender(m, user)
     THEN RejectMsg("destroy", user, m, "forbidden")
     ELSE RejectMsg("destroy", user, m, "server_error")

\* MessageAdmin (admin.ModelAdmin): the change form of a message, submitted
\* with is_deleted ticked and the other fields as shown; the change view
\* runs in one transaction, and save_model calls Message.save
AdminSetDeleted(m) ==
  /\ ~messages[m].is_deleted
  /\ messages' = [messages EXCEPT ![m].is_deleted = TRUE]
  /\ convs' = [convs EXCEPT ![messages[m].conversation].last_message_at = now]
  /\ UNCHANGED <<participants, settings, now, catalog, pc, req, last>>

\* ------------------------------------------------------ what reads return
\* [:50] in ConversationDetailSerializer.get_messages
MessageWindow == 50
\* [:100] in ConversationListSerializer.get_last_message
PreviewLength == 100

Take(s, n) == SubSeq(s, 1, IF n < Len(s) THEN n ELSE Len(s))
Reverse(s) == [i \in 1..Len(s) |-> s[Len(s) + 1 - i]]

\* order_by('-created_at') over the rows S: the orders the database may
\* return, rows of equal created_at in any order
NewestFirst(S) ==
  {s \in [1..Cardinality(S) -> S] :
     /\ \A i, j \in 1..Cardinality(S) : i # j => s[i] # s[j]
     /\ \A i, j \in 1..Cardinality(S) :
          i < j => messages[s[i]].created_at >= messages[s[j]].created_at}

\* ConversationDetailSerializer.get_messages: the ids listed, oldest first
GetMessages(c) ==
  {Reverse(Take(s, MessageWindow)) :
     s \in NewestFirst({m \in MessagesOf(c) : ~messages[m].is_deleted})}

\* Conversation.get_last_message: the rows
\* self.messages.order_by('-created_at').first() may return
GetLastMessage(c) ==
  {m \in MessagesOf(c) :
     \A k \in MessagesOf(c) : messages[m].created_at >= messages[k].created_at}

\* last_msg.content[:100] + '...' if len(last_msg.content) > 100 else ...
Preview(content) ==
  IF Len(content) > PreviewLength
  THEN SubSeq(content, 1, PreviewLength) \o <<"...">>
  ELSE content

\* the (message, content) pairs the endpoints show to user: the detail view
\* of a conversation, the message list and detail endpoints, and the
\* last_message preview of the conversation list
Shown(user) ==
  UNION {
    UNION {{<<s[i], messages[s[i]].content>> : i \in DOMAIN s} :
             s \in GetMessages(c)}
    \cup {<<m, Preview(messages[m].content)>> : m \in GetLastMessage(c)}
    : c \in VisibleConversations(user)}
  \cup {<<m, messages[m].content>> : m \in VisibleMessages(user)}

\* ConversationViewSet.partial_update through ConversationListSerializer,
\* whose is_active field is writable
SetActive(p, user, c, active) ==
  /\ pc[p] = "idle"
  /\ IF c \notin VisibleConversations(user)
     THEN Reject("set_active", user, c, "not_found")
     ELSE /\ convs' = [convs EXCEPT ![c].is_active = active]
          /\ Respond("set_active", user, c, "ok")
          /\ UNCHANGED <<participants, settings, messages, now, catalog, pc, req>>

\* ------------------------------------------------------------ favorites
\* product.favorited_by: the ProductFavorite rows of a product
FavoritesOf(product) ==
  {i \in DOMAIN favorites : favorites[i].product = product}

HasFavorite(user, product) ==
  \E i \in FavoritesOf(product) : favorites[i].user = user

\* ProductViewSet.add_favorite up to the SELECT of get_or_create
AddFavorite(p, user, product) ==
  /\ pc[p] = "idle"
  /\ IF Seller[product] = user
     THEN Reject("add_favorite", user, 0, "invalid")
     ELSE IF HasFavorite(user, product)
     THEN Reject("add_favorite", user, 0, "found")
     ELSE /\ pc' = [pc EXCEPT ![p] = "f_create"]
          /\ req' = [req EXCEPT ![p] =
                       [NoReq EXCEPT !.op = "add_favorite", !.user1 = user,
                                     !.product = product]]
          /\ UNCHANGED <<db, now, catalog, last>>

\* the create of get_or_create, which runs ProductFavorite.save inside
\* transaction.atomic(): the INSERT, the count and the write of
\* favorite_count appear together; unique_together refuses a second row of
\* the same user and product, and get_or_create then answers with that row
FavoriteCreate(p) ==
  /\ pc[p] = "f_create"
  /\ IF HasFavorite(req[p].user1, req[p].product)
     THEN /\ Respond("add_favorite", req[p].user1, 0, "found")
          /\ UNCHANGED <<favorites, favorite_count>>
     ELSE /\ favorites' = Append(favorites, [user |-> req[p].user1,
                                             product |-> req[p].product])
          /\ favorite_count' =
               [favorite_count EXCEPT ![req[p].product] =
                  Cardinality(FavoritesOf(req[p].product)) + 1]
          /\ Respond("add_favorite", req[p].user1, 0, "created")
  /\ Finish(p)
  /\ UNCHANGED <<db, now, images>>

\* ProductViewSet.remove_favorite up to ProductFavorite.objects.get
RemoveFavorite(p, user, product) ==
  /\ pc[p] = "idle"
  /\ IF ~HasFavorite(user, product)
     THEN Reject("remove_favorite", user, 0, "not_found")
     ELSE /\ pc' = [pc EXCEPT ![p] = "f_delete"]
          /\ req' = [req EXCEPT ![p] =
                       [NoReq EXCEPT !.op = "remove_favorite", !.user1 = user,
                                     !.product = product]]
          /\ UNCHANGED <<db, now, catalog, last>>

\* ProductFavorite.delete: super().delete() removes the row ...
FavoriteDelete(p) ==
  /\ pc[p] = "f_delete"
  /\ favorites' = SelectSeq(favorites,
                    LAMBDA f : ~(f.user = req[p].user1 /\ f.product = req[p].product))
  /\ pc' = [pc EXCEPT ![p] = "f_count"]
  /\ UNCHANGED <<db, now, favorite_count, images, req, last>>

\* ... self.product.favorited_by.count() counts the rows ...
FavoriteCount(p) ==
  /\ pc[p] = "f_count"
  /\ req' = [req EXCEPT ![p].t = Cardinality(FavoritesOf(req[p].product))]
  /\ pc' = [pc EXCEPT ![p] = "f_write"]
  /\ UNCHANGED <<db, now, catalog, last>>

\* ... and self.product.save(update_fields=['favorite_count']) writes it
FavoriteWrite(p) ==
  /\ pc[p] = "f_write"
  /\ favorite_count' = [favorite_count EXCEPT ![req[p].product] = req[p].t]
  /\ Respond("remove_favorite", req[p].user1, 0, "ok")
  /\ Finish(p)
  /\ UNCHANGED <<db, now, favorites, images>>

\* -------------------------------------------------------- product images
ImagesOf(product) == {i \in DOMAIN images : images[i].product = product}

\* Product.get_main_image looks among these
PrimaryImages(product) == {i \in ImagesOf(product) : images[i].is_primary}

\* ProductImageViewSet.update: get_object() finds the image of an active
\* product for every user, and the serializer sets is_primary on the
\* loaded row
ImageUpdate(p, user, i, is_primary) ==
  /\ pc[p] = "idle"
  /\ pc' = [pc EXCEPT ![p] = "i_clear"]
  /\ req' = [req EXCEPT ![p] =
               [NoReq EXCEPT !.op = "image_update", !.user1 = user, !.msg = i,
                             !.row = [images[i] EXCEPT !.is_primary = is_primary]]]
  /\ UNCHANGED <<db, now, catalog, last>>

\* ProductImage.save: if self.is_primary, one UPDATE clears the primary
\* images of the product ...
ImageClear(p) ==
  /\ pc[p] = "i_clear"
  /\ images' = IF req[p].row.is_primary
               THEN [j \in DOMAIN images |->
                       IF images[j].product = req[p].row.product
                       THEN [images[j] EXCEPT !.is_primary = FALSE]
                       ELSE images[j]]
               ELSE images
  /\ pc' = [pc EXCEPT ![p] = "i_save"]
  /\ UNCHANGED <<db, now, favorites, favorite_count, req, last>>

\* ... and super().save() writes the row itself
ImageWrite(p) ==
  /\ pc[p] = "i_save"
  /\ images' = [images EXCEPT ![req[p].msg] = req[p].row]
  /\ RespondMsg("image_update", req[p].user1, 0, req[p].msg, "ok")
  /\ Finish(p)
  /\ UNCHANGED <<db, now, favorites, favorite_count>>

\* the catalogue holds product "p1", offered by u2 with two uploaded
\* images (ProductSerializer.create makes the first one primary), and no
\* favorite
CatalogInit ==
  /\ favorites = << >>
  /\ favorite_count = [pr \in Products |-> 0]
  /\ images = <<[product |-> "p1", is_primary |-> TRUE],
                [product |-> "p1", is_primary |-> FALSE]>>

\* ---------------------------------------------------------------- clock
Tick ==
  /\ now < MaxTime
  /\ now' = now + 1
  /\ UNCHANGED <<db, catalog, pc, req, last>>

Init ==
  /\ convs = << >>
  /\ participants = {}
  /\ settings = {}
  /\ messages = << >>
  /\ now = 1
  /\ CatalogInit
  /\ pc = [p \in Procs |-> "idle"]
  /\ req = [p \in Procs |-> NoReq]
  /\ last = NoLast

\* ------------------------------------------------------- specifications
HelperStep(p) ==
  \/ \E user1, user2 \in Members, product \in ProductValues :
       HelperLookup(p, user1, user2, product)
  \/ HelperInsert(p)
  \/ HelperAdd(p)
  \/ HelperSettings1(p)
  \/ HelperSettings2(p)

SerializerStep(p, initials) ==
  \/ \E current_user \in Members, other_user_id \in Members \cup {NoUser},
        related_product \in ProductValues, initial_message \in initials :
       SerializerCreate(p, current_user, other_user_id, related_product,
                        initial_message)
  \/ SerializerTxn(p)
  \/ SerializerCommit(p)

PostStep(p) ==
  \/ \E user \in Users, c \in ConvIds, content \in Texts, ty \in MessageTypes :
       SendMessage(p, user, c, content, ty)
  \/ \E user \in Users, c \in ConvIds, content \in Texts, ty \in MessageTypes :
       MessageCreate(p, user, c, content, ty)
  \/ \E user \in Users, c \in ConvIds, amount \in Amounts, note \in Notes :
       SendPriceOffer(p, user, c, amount, note)
  \/ \E user \in Users, c \in ConvIds, location \in Locations, note \in Notes :
       SendMeetupRequest(p, user, c, location, note)
  \/ TouchConversation(p)
  \/ \E user \in Users, c \in ConvIds, active \in BOOLEAN : SetActive(p, user, c, active)

\* the texts an edit sends
EditTexts == {NoText, <<" ">>, <<"b", " ">>}

ReadStep(p, users) ==
  \/ \E user \in users, m \in MsgIds : MarkRead(p, user, m)
  \/ MarkReadWrite(p)
  \/ \E op \in {"mark_as_read", "retrieve"}, user \in users, c \in ConvIds :
       MarkAllRead(p, op, user, c)

EditStep(p) ==
  \/ \E user \in Users, m \in MsgIds, content \in EditTexts :
       EditLoad(p, user, m, content)
  \/ EditWrite(p)
  \/ \E user \in Users, m \in MsgIds : Destroy(p, user, m)

\* both creation paths, concurrently, from the empty database
Next == Tick \/ \E p \in Procs : HelperStep(p) \/ SerializerStep(p, {NoText})

Spec == Init /\ [][Next]_vars

\* one request at a time: every request runs to its end before the next starts
SeqNext ==
  \/ Tick
  \/ HelperStep(1)
  \/ SerializerStep(1, Texts \cup {NoText})
  \/ \E user \in Users, c \in ConvIds, content \in Texts, ty \in MessageTypes :
       SendMessage(1, user, c, content, ty)
  \/ TouchConversation(1)

SeqSpec == Init /\ [][SeqNext]_vars

\* the message endpoints, concurrently, on the conversation that
\* ConversationCreateSerializer.create("u1", related_product = "p1") has made
MsgInit ==
  /\ convs = <<NewConversation("p1", 1)>>
  /\ participants = {<<1, "u1">>, <<1, "u2">>}
  /\ settings = {<<1, "u1">>, <<1, "u2">>}
  /\ messages = << >>
  /\ now = 1
  /\ CatalogInit
  /\ pc = [p \in Procs |-> "idle"]
  /\ req = [p \in Procs |-> NoReq]
  /\ last = [op |-> "conversation_create", user |-> "u1", conv |-> 1,
             msg |-> 0, status |-> "created"]

MsgNext == Tick \/ \E p \in Procs : PostStep(p)

MsgSpec == MsgInit /\ [][MsgNext]_vars

\* the conversation that ConversationCreateSerializer.create("u1",
\* related_product = "p1", initial_message = "a") has made at time 1
EditInit ==
  /\ convs = <<[NewConversation("p1", 1) EXCEPT !.last_message_at = 1]>>
  /\ participants = {<<1, "u1">>, <<1, "u2">>}
  /\ settings = {<<1, "u1">>, <<1, "u2">>}
  /\ messages = <<NewMessage(1, "u1", "product_inquiry", <<"a">>, 0, << >>, 1)>>
  /\ now = 1
  /\ CatalogInit
  /\ pc = [p \in Procs |-> "idle"]
  /\ req = [p \in Procs |-> NoReq]
  /\ last = [op |-> "conversation_create", user |-> "u1", conv |-> 1,
             msg |-> 0, status |-> "created"]

\* editing and deleting, concurrently with single reads and the
\* administrator's change form
EditNext ==
  \/ Tick
  \/ \E m \in MsgIds : AdminSetDeleted(m)
  \/ \E p \in Procs :
       \/ TouchConversation(p)
       \/ EditStep(p)
       \/ \E user \in Users, m \in MsgIds : MarkRead(p, user, m)
       \/ MarkReadWrite(p)

EditSpec == EditInit /\ [][EditNext]_vars

\* the two conversations that u1 has opened with u2 through
\* ConversationCreateSerializer.create, one about "p1" and one about no product
ReadInit ==
  /\ convs = <<NewConversation("p1", 1), NewConversation(NoProduct, 1)>>
  /\ participants = {1, 2} \X Members
  /\ settings = {1, 2} \X Members
  /\ messages = << >>
  /\ now = 1
  /\ CatalogInit
  /\ pc = [p \in Procs |-> "idle"]
  /\ req = [p \in Procs |-> NoReq]
  /\ last = [op |-> "conversation_create", user |-> "u1", conv |-> 2,
             msg |-> 0, status |-> "created"]

\* posting and reading, concurrently, on these conversations
ReadNext ==
  \/ Tick
  \/ \E p \in Procs :
       \/ \E user \in Members, c \in ConvIds :
            SendMessage(p, user, c, <<" ", "a">>, "text")
       \/ SendPriceOffer(p, "u2", 1, 5000, NoText)
       \/ \E location \in Locations :
            SendMeetupRequest(p, "u2", 1, location, NoText)
       \/ TouchConversation(p)
       \/ ReadStep(p, Members)

ReadSpec == ReadInit /\ [][ReadNext]_vars

\* price offers of members and of the outsider, concurrently, on the
\* conversation of MsgInit, which its participants archive and reopen
OfferNext ==
  \/ Tick
  \/ \E p \in Procs :
       \/ \E user \in Users, c \in ConvIds, amount \in Amounts,
             note \in OfferNotes :
            SendPriceOffer(p, user, c, amount, note)
       \/ TouchConversation(p)
       \/ \E user \in Members, c \in ConvIds, active \in BOOLEAN :
            SetActive(p, user, c, active)

OfferSpec == MsgInit /\ [][OfferNext]_vars

\* ------------------------------------------------------------ properties
\* the conversations of the dedup key ({a, b}, product)
ConvsForKey(a, b, product) ==
  {c \in ConvIds : /\ ParticipantsOf(c) = {a, b}
                   /\ convs[c].related_product = product}

Quiescent == \A p \in Procs : pc[p] = "idle"

\* C1: once all concurrent get-or-create calls have finished, every key
\* ({A, B}, P) with A # B has at most one conversation, and each such
\* conversation has exactly 2 Participant State rows.
C1_OneConversationPerKey ==
  Quiescent =>
    \A a, b \in Users, product \in ProductValues :
      a # b =>
        /\ Cardinality(ConvsForKey(a, b, product)) <= 1
        /\ \A c \in ConvsForKey(a, b, product) : Cardinality(SettingsOf(c)) = 2

\* a request that asks for the conversation of (a, b, product) gets the one
\* existing conversation of that key back, and nothing in the database changes
ReturnsExisting(a, b, product) ==
  /\ Cardinality(ConvsForKey(a, b, product)) = 1
  /\ last'.status = "found"
  /\ last'.conv \in ConvsForKey(a, b, product)
  /\ UNCHANGED db

RejectedUnchanged == last'.status = "invalid" /\ UNCHANGED db

ValidInitials == {t \in Texts \cup {NoText} : t = NoText \/ CharFieldValid(t)}

\* C2 as stated: with requests run one at a time, once the conversation of
\* ({A, B}, P) exists, every call for (A, B, P) or (B, A, P), through the
\* helper or through ConversationCreateSerializer.create, returns it with
\* created = false and changes nothing.
C2_Original ==
  [][\A a, b \in Users, product \in ProductValues :
       (a # b /\ ConvsForKey(a, b, product) # {}) =>
         /\ HelperLookup(1, a, b, product) => ReturnsExisting(a, b, product)
         /\ \A initial \in ValidInitials :
              SerializerCreate(1, a, b, product, initial) =>
                ReturnsExisting(a, b, product)]_vars

\* C2 as amended: the helper returns the existing conversation for either
\* argument order; the serializer does so whenever the partner it settles on
\* is B, except that a call by the seller of P is refused and changes nothing.
C2_SequentialReuse ==
  [][\A a, b \in Users, product \in ProductValues :
       (a # b /\ ConvsForKey(a, b, product) # {}) =>
         /\ HelperLookup(1, a, b, product) => ReturnsExisting(a, b, product)
         /\ \A initial \in ValidInitials :
              SerializerCreate(1, a, b, product, initial) =>
                IF product # NoProduct /\ Seller[product] = a
                THEN RejectedUnchanged
                ELSE OtherUser(a, b, product) = b =>
                       ReturnsExisting(a, b, product)]_vars

\* a two-party conversation with messages has been handed back by a later call
C2_Witness ==
  /\ last.status = "found"
  /\ last.user = "u2"
  /\ last.conv \in ConvIds
  /\ Cardinality(ParticipantsOf(last.conv)) = 2
  /\ MessagesOf(last.conv) # {}
  /\ convs[last.conv].last_message_at # 0

\* the seller's own call about the existing product conversation was refused
C2_SellerWitness ==
  /\ last = [op |-> "conversation_create", user |-> "u2", conv |-> 0,
             msg |-> 0, status |-> "invalid"]
  /\ ConvsForKey("u1", "u2", "p1") # {}

\* C3: in every reachable state there is at most one active conversation per
\* (unordered pair, product value).
C3_ProductInDedupKey ==
  \A a, b \in Users, product \in ProductValues :
    a # b =>
      Cardinality({c \in ConvsForKey(a, b, product) : convs[c].is_active}) <= 1

\* C4: in every state another request can observe, each conversation has two
\* participants and exactly one Participant State row for each of them.
C4_CreationAllOrNothing ==
  \A c \in ConvIds :
    /\ Cardinality(ParticipantsOf(c)) = 2
    /\ SettingsOf(c) = ParticipantsOf(c)

\* C5: no reachable state holds a conversation whose participants are one and
\* the same user.
C5_NoSelfConversation ==
  \A c \in ConvIds : Cardinality(ParticipantsOf(c)) # 1

PostOps == {"send_message", "send_price_offer", "send_meetup_request",
            "message_create"}

SendersAreParticipants ==
  \A m \in MsgIds : <<messages[m].conversation, messages[m].sender>> \in participants

\* the latest response answers a post by a user outside the conversation
OutsiderPosted ==
  /\ last.op \in PostOps
  /\ last.conv \in ConvIds
  /\ <<last.conv, last.user>> \notin participants

C7_NoMessageInInactive ==
  [][\A c \in ConvIds :
       ~convs[c].is_active =>
         Cardinality({m \in 1..Len(messages') : messages'[m].conversation = c})
           = Cardinality(MessagesOf(c))]_vars

\* C8: every stored message has content that is non-empty after trimming.
C8_ContentNeverBlank ==
  \A m \in MsgIds : Strip(messages[m].content) # << >>

\* the message posted last to conversation c
NewestMessage(c) == CHOOSE m \in MessagesOf(c) : \A k \in MessagesOf(c) : k <= m

\* C9: once the posts have finished, last_message_at of a conversation equals
\* the created_at of the message posted last to it.
C9_LastMessageAtIsCreatedAt ==
  Quiescent =>
    \A c \in ConvIds :
      MessagesOf(c) # {} =>
        convs[c].last_message_at = messages[NewestMessage(c)].created_at

\* C10: no state shows a conversation that holds a message while its
\* last_message_at is null or earlier than that message's created_at.
C10_InsertAndTimestampAtomic ==
  \A m \in MsgIds :
    /\ convs[messages[m].conversation].last_message_at # 0
    /\ convs[messages[m].conversation].last_message_at >= messages[m].created_at

\* a step in which request slot p takes user's edit or delete of message m
EditOrDelete(p, user, m) ==
  \/ \E content \in EditTexts : EditLoad(p, user, m, content)
  \/ Destroy(p, user, m)

\* the request of slot p has ended with this status and message m is as before
Refused(p, m, status) ==
  /\ last'.status = status
  /\ pc'[p] = "idle"
  /\ messages'[m].content = messages[m].content
  /\ messages'[m].is_edited = messages[m].is_edited
  /\ messages'[m].is_deleted = messages[m].is_deleted

\* C11 as stated: an edit or a soft delete of a message requested by any user
\* other than its sender fails with Forbidden and leaves the message's
\* content, is_edited and is_deleted unchanged.
C11_Original ==
  [][\A p \in Procs, user \in Users, m \in MsgIds :
       (user # messages[m].sender /\ EditOrDelete(p, user, m)) =>
         Refused(p, m, "forbidden")]_vars

\* C11 as amended: such a request fails with Forbidden when the requester is
\* a participant of the message's conversation and the message is not
\* soft-deleted, with NotFound otherwise, and in both cases leaves the
\* message's content, is_edited and is_deleted unchanged.
C11_OnlySenderEditsOrDeletes ==
  [][\A p \in Procs, user \in Users, m \in MsgIds :
       (user # messages[m].sender /\ EditOrDelete(p, user, m)) =>
         Refused(p, m, IF m \in VisibleMessages(user) THEN "forbidden"
                       ELSE "not_found")]_vars

\* the other participant's edit or delete of u1's message has been refused
C11_Witness ==
  /\ last.op \in {"update", "destroy"}
  /\ last.user = "u2"
  /\ last.status = "forbidden"
  /\ last.msg \in MsgIds
  /\ messages[last.msg].sender = "u1"
  /\ messages[last.msg].content = <<"a">>
  /\ ~messages[last.msg].is_edited

\* C12: the write of the sender's edit of a message that is not deleted sets
\* content to the (trimmed) new content and is_edited to true, and leaves the
\* message's id, created_at, sender, conversation, is_read and read_at, and
\* with them the ordered log of the conversation, as they were.
C12_EditChangesOnlyContent ==
  [][\A p \in Procs :
       (EditWrite(p) /\ req[p].text # NoText
          /\ ~messages[req[p].msg].is_deleted) =>
         LET m == req[p].msg
         IN  /\ messages'[m].content = req[p].text
             /\ messages'[m].is_edited
             /\ Len(messages') = Len(messages)
             /\ messages'[m].created_at = messages[m].created_at
             /\ messages'[m].sender = messages[m].sender
             /\ messages'[m].conversation = messages[m].conversation
             /\ messages'[m].is_read = messages[m].is_read
             /\ messages'[m].read_at = messages[m].read_at]_vars

\* C13: an edit of a message whose is_deleted is true is rejected with
\* MessageDeleted, also when its sender asks, and no step of an edit changes
\* the content or is_edited of such a message.
C13_DeletedNotEditable ==
  [][\A m \in MsgIds :
       messages[m].is_deleted =>
         /\ \A p \in Procs, content \in EditTexts :
              EditLoad(p, messages[m].sender, m, content) =>
                last'.status = "message_deleted" /\ pc'[p] = "idle"
         /\ messages'[m].content = messages[m].content
         /\ messages'[m].is_edited = messages[m].is_edited]_vars

\* the state part of C13 alone: the content and is_edited of a message whose
\* is_deleted is true stay as they are
C13_DeletedContentFrozen ==
  [][\A m \in MsgIds :
       messages[m].is_deleted =>
         /\ messages'[m].content = messages[m].content
         /\ messages'[m].is_edited = messages[m].is_edited]_vars

\* C14: a soft delete requested by the sender of a message succeeds and sets
\* is_deleted to true; the conversation keeps the same messages with the same
\* ids and created_at, and no step ever removes a message row.
C14_SoftDeleteKeepsRow ==
  [][/\ Len(messages') >= Len(messages)
     /\ \A k \in MsgIds :
          /\ messages'[k].conversation = messages[k].conversation
          /\ messages'[k].created_at = messages[k].created_at
     /\ \A p \in Procs, m \in MsgIds :
          (m \in VisibleMessages(messages[m].sender)
             /\ Destroy(p, messages[m].sender, m)) =>
            /\ last'.status = "ok"
            /\ messages'[m].is_deleted]_vars

\* C15: no read shows a client the content of a message that has been
\* soft-deleted, be it in the detail view of the conversation, in the message
\* list and detail endpoints or in the last_message preview of the
\* conversation list (what the code shows of a message is always its stored
\* content or the first 100 characters of it).
C15_DeletedContentHidden ==
  \A user \in Users : \A shown \in Shown(user) : ~messages[shown[1]].is_deleted

\* the number of entries of the detail view of conversation c
ListedCounts(c) == {Len(s) : s \in GetMessages(c)}

\* C16: soft-deleting a message inside the listed window leaves the number of
\* entries of the listing as it was: the message stays listed at its place.
C16_DeletedStayListed ==
  [][\A c \in ConvIds :
       (\E m \in MessagesOf(c) :
          ~messages[m].is_deleted /\ messages'[m].is_deleted) =>
         /\ ListedCounts(c)' = ListedCounts(c)
         /\ \A user \in Users : VisibleMessages(user)' = VisibleMessages(user)]_vars

\* C17: mark_read requested by the sender of the message is a no-op in any
\* state: the request ends at once, and is_read, read_at and the unread
\* counts of every conversation are as before.
C17_SenderMarkReadNoOp ==
  [][\A p \in Procs, m \in MsgIds :
       MarkRead(p, messages[m].sender, m) =>
         /\ pc'[p] = "idle"
         /\ messages' = messages
         /\ \A c \in ConvIds, user \in Users :
              UnreadCount(c, user)' = UnreadCount(c, user)]_vars

\* the sender's mark_read of their own unread message has been answered
C17_Witness ==
  /\ last.op = "mark_read"
  /\ last.status = "ok"
  /\ last.msg \in MsgIds
  /\ messages[last.msg].sender = last.user
  /\ ~messages[last.msg].is_read
  /\ messages[last.msg].read_at = 0
  /\ UnreadCount(messages[last.msg].conversation, "u2") > 0

\* C18: once a message is read, its read_at stays what the first successful
\* mark_read made it, whatever later or overlapping mark_read and
\* mark-all-read requests touch the message.
C18_ReadAtSetOnce ==
  [][\A m \in MsgIds :
       messages[m].is_read =>
         /\ messages'[m].is_read
         /\ messages'[m].read_at = messages[m].read_at]_vars

\* this step answers user's request op about conversation c
Answered(op, user, c) ==
  last'.op = op /\ last'.user = user /\ last'.conv = c

\* C19: mark_as_read_for_user(c, user) gives is_read = true and one common
\* read_at to exactly the unread messages of c that user did not write, and
\* changes nothing else: user's own messages, the messages already read, the
\* messages of other conversations and the conversations stay as they are.
C19_MarkAllReadFrame ==
  [][\A p \in Procs, op \in {"mark_as_read", "retrieve"},
        user \in Users, c \in ConvIds :
       (IsParticipant(c, user) /\ Answered(op, user, c)
          /\ MarkAllRead(p, op, user, c)) =>
         /\ \E t \in 1..MaxTime :
              \A m \in MsgIds :
                messages'[m] =
                  IF /\ messages[m].conversation = c
                     /\ messages[m].sender # user
                     /\ ~messages[m].is_read
                  THEN [messages[m] EXCEPT !.is_read = TRUE, !.read_at = t]
                  ELSE messages[m]
         /\ Len(messages') = Len(messages)
         /\ UNCHANGED <<convs, participants, settings>>]_vars

\* u1 has marked conversation 1 read: u2's message is read, u1's own message
\* and the message of conversation 2 are not
C19_Witness ==
  /\ last.op \in {"mark_as_read", "retrieve"}
  /\ last.user = "u1"
  /\ last.conv = 1
  /\ last.status = "ok"
  /\ \E m \in MessagesOf(1) :
       messages[m].sender = "u2" /\ messages[m].is_read /\ messages[m].read_at > 0
  /\ \E m \in MsgIds \ MessagesOf(1) :
       messages[m].sender = "u2" /\ ~messages[m].is_read

\* this step appends one message by v to conversation c
Posted(c, v) ==
  /\ Len(messages') = Len(messages) + 1
  /\ messages'[Len(messages')].conversation = c
  /\ messages'[Len(messages')].sender = v

\* C20: in a conversation c of two users u and v, the unread count of u is 0
\* right after mark_as_read_for_user(c, u); every post by v (plain message,
\* price offer or meetup request) raises the unread count of u by exactly 1
\* and leaves that of v, the poster, unchanged.
C20_UnreadCount ==
  [][\A c \in ConvIds, u, v \in Users :
       (u # v /\ ParticipantsOf(c) = {u, v}) =>
         /\ \A p \in Procs, op \in {"mark_as_read", "retrieve"} :
              (Answered(op, u, c) /\ MarkAllRead(p, op, u, c)) =>
                UnreadCount(c, u)' = 0
         /\ Posted(c, v) =>
              /\ UnreadCount(c, u)' = UnreadCount(c, u) + 1
              /\ UnreadCount(c, v)' = UnreadCount(c, v)]_vars

\* after u1 had read conversation 1, u2's price offer has made u1's unread
\* count 1
C20_Witness ==
  /\ last.op = "send_price_offer"
  /\ last.user = "u2"
  /\ last.conv = 1
  /\ last.status = "ok"
  /\ UnreadCount(1, "u1") = 1
  /\ UnreadCount(1, "u2") = 0
  /\ \E m \in MessagesOf(1) : messages[m].sender = "u2" /\ messages[m].is_read

\* the unread messages of conversation c that user did not write and that
\* are not soft-deleted
UnreadUndeleted(c, user) ==
  {m \in MessagesOf(c) : /\ ~messages[m].is_read
                         /\ messages[m].sender # user
                         /\ ~messages[m].is_deleted}

\* C21: a soft-deleted message is not counted as unread, neither in the
\* per-conversation unread count nor in the user's total unread_count.
C21_UnreadExcludesDeleted ==
  \A user \in Users :
    /\ \A c \in VisibleConversations(user) :
         UnreadCount(c, user) = Cardinality(UnreadUndeleted(c, user))
    /\ TotalUnreadCount(user) =
         Cardinality(UNION {UnreadUndeleted(c, user) :
                              c \in VisibleConversations(user)})

\* C22: mark-all-read overlapping with a post of the other participant marks
\* only messages that were there when its UPDATE ran: the marking adds no row,
\* no message is read before it was inserted, and a message inserted after
\* the marking is unread, with read_at null, and counted as unread for the
\* other participants.
C22_MarkingSkipsLaterMessages ==
  [][/\ \A p \in Procs, op \in {"mark_as_read", "retrieve"},
           u \in Users, c \in ConvIds :
          (Answered(op, u, c) /\ MarkAllRead(p, op, u, c)) =>
            Len(messages') = Len(messages)
     /\ \A m \in 1..Len(messages') :
          messages'[m].is_read =>
            messages'[m].read_at >= messages'[m].created_at
     /\ \A c \in ConvIds, v \in Users :
          Posted(c, v) =>
            LET m == Len(messages')
            IN  /\ ~messages'[m].is_read
                /\ messages'[m].read_at = 0
                /\ \A u \in ParticipantsOf(c) \ {v} :
                     UnreadCount(c, u)' = UnreadCount(c, u) + 1]_vars

\* u1 has marked conversation 1 read while a post of u2 was on its way: the
\* message inserted after the marking is unread, the earlier one is read
C22_Witness ==
  /\ last.op \in {"mark_as_read", "retrieve"}
  /\ last.user = "u1"
  /\ last.conv = 1
  /\ last.status = "ok"
  /\ \E p \in Procs :
       /\ pc[p] = "m_touch"
       /\ req[p].op \in PostOps
       /\ req[p].user1 = "u2"
       /\ req[p].conv = 1
       /\ ~messages[req[p].msg].is_read
       /\ messages[req[p].msg].read_at = 0
  /\ \E m \in MessagesOf(1) : messages[m].sender = "u2" /\ messages[m].is_read
  /\ UnreadCount(1, "u1") = 1

\* this step answers a price offer of user or inserts a message of user
OfferStep(user) ==
  \/ last'.op = "send_price_offer" /\ last'.user = user
  \/ /\ Len(messages') > Len(messages)
     /\ messages'[Len(messages')].sender = user

\* this step answers the price offer as invalid and adds no message
OfferRefused == last'.status = "invalid" /\ messages' = messages

\* this step inserts exactly one price offer of user in c with this content
OfferStored(user, c, offer_amount, content) ==
  /\ Len(messages') = Len(messages) + 1
  /\ SubSeq(messages', 1, Len(messages)) = messages
  /\ messages'[Len(messages')] =
       [conversation |-> c, sender |-> user, message_type |-> "price_offer",
        content |-> content, offer_amount |-> offer_amount, location |-> << >>,
        is_read |-> FALSE, read_at |-> 0, is_edited |-> FALSE,
        is_deleted |-> FALSE, created_at |-> now]

\* C23 as stated: a participant's price offer with offer_amount <= 0 fails as
\* invalid and creates no message; one with offer_amount > 0 creates exactly
\* one unread price_offer message carrying the amount, whose content is the
\* note if a note is given and the default text with the amount otherwise.
C23_Original ==
  [][\A p \in Procs, user \in Users, c \in ConvIds,
        offer_amount \in Amounts, note \in OfferNotes :
       (IsParticipant(c, user) /\ OfferStep(user)
          /\ SendPriceOffer(p, user, c, offer_amount, note)) =>
         IF offer_amount <= 0 THEN OfferRefused
         ELSE OfferStored(user, c, offer_amount,
                IF note = NoText THEN OfferText(offer_amount) ELSE note)]_vars

\* C23 as amended: the offer also fails as invalid when the amount has more
\* than two decimal places, and the content of the message is the note with
\* the whitespace around it trimmed.
C23_PriceOffer ==
  [][\A p \in Procs, user \in Users, c \in ConvIds,
        offer_amount \in Amounts, note \in OfferNotes :
       (IsParticipant(c, user) /\ OfferStep(user)
          /\ SendPriceOffer(p, user, c, offer_amount, note)) =>
         IF offer_amount <= 0 \/ offer_amount % 10 # 0 THEN OfferRefused
         ELSE OfferStored(user, c, offer_amount,
                IF note = NoText THEN OfferText(offer_amount)
                ELSE Strip(note))]_vars

\* a price offer of 5.00 with the note " n" has been stored and answered
C23_Witness ==
  /\ last.op = "send_price_offer"
  /\ last.status = "ok"
  /\ last.msg \in MsgIds
  /\ messages[last.msg].message_type = "price_offer"
  /\ messages[last.msg].offer_amount = 5000
  /\ messages[last.msg].content = <<"n">>
  /\ ~messages[last.msg].is_read

\* C24: the detail view lists at most 50 messages, oldest first, rows of
\* equal created_at in ascending id, so that every read of the same rows
\* gives the same listing.
C24_ListingTotalOrder ==
  \A c \in ConvIds :
    /\ Cardinality(GetMessages(c)) = 1
    /\ \A s \in GetMessages(c) :
         /\ Len(s) <= MessageWindow
         /\ \A i, j \in DOMAIN s :
              i < j =>
                \/ messages[s[i]].created_at < messages[s[j]].created_at
                \/ /\ messages[s[i]].created_at = messages[s[j]].created_at
                   /\ s[i] < s[j]

\* C25: the steps of mark_read and of an edit leave last_message_at of every
\* conversation as it is; only posts move it.
C25_OnlyPostsMoveLastMessageAt ==
  [][\A p \in Procs :
       (pc'[p] # pc[p] /\ req[p].op \in {"mark_read", "update"}) =>
         \A c \in ConvIds :
           convs'[c].last_message_at = convs[c].last_message_at]_vars

\* posts to one conversation with the two statements of
\* update_last_message_time as separate steps
ClockNext ==
  \/ Tick
  \/ \E p \in Procs :
       \/ \E user \in Users, c \in ConvIds, content \in Texts, ty \in MessageTypes :
            SendMessage(p, user, c, content, ty)
       \/ TouchRead(p)
       \/ TouchWrite(p)

ClockSpec == MsgInit /\ [][ClockNext]_vars

\* C26: while posts to a conversation overlap, its last_message_at never
\* decreases, and when no post is under way it is not earlier than the
\* created_at of any of the conversation's messages.
C26_LastMessageAtMonotone ==
  [][\A c \in ConvIds :
       /\ convs'[c].last_message_at >= convs[c].last_message_at
       /\ (\A p \in Procs : pc'[p] = "idle") =>
            \A m \in 1..Len(messages') :
              messages'[m].conversation = c =>
                convs'[c].last_message_at >= messages'[m].created_at]_vars

\* C27: read_at is set exactly when is_read is true, a message is born
\* unread, and a message that is read stays read with its read_at set.
C27_ReadStateMonotone ==
  [][\A m \in 1..Len(messages') :
       /\ (messages'[m].read_at # 0) <=> messages'[m].is_read
       /\ m \notin MsgIds => ~messages'[m].is_read
       /\ (m \in MsgIds /\ messages[m].is_read) =>
            (messages'[m].is_read /\ messages'[m].read_at # 0)]_vars

\* C28: the detail view of conversation c, fetched by its participant user,
\* leaves user with no unread message in c and every message of the other
\* participant read, and changes neither the other participant's unread
\* count nor any message that user wrote.
C28_RetrieveMarksRead ==
  [][\A p \in Procs, user \in Users, c \in ConvIds :
       (IsParticipant(c, user) /\ Answered("retrieve", user, c)
          /\ MarkAllRead(p, "retrieve", user, c)) =>
         /\ UnreadCount(c, user)' = 0
         /\ \A m \in MessagesOf(c) :
              messages[m].sender # user => messages'[m].is_read
         /\ \A v \in ParticipantsOf(c) \ {user} :
              UnreadCount(c, v)' = UnreadCount(c, v)
         /\ \A m \in MsgIds :
              messages[m].sender = user => messages'[m] = messages[m]]_vars

\* the detail view of conversation 1 has just marked u2's message read for
\* u1, while u1's own message is still unread by u2
C28_Witness ==
  /\ last.op = "retrieve"
  /\ last.user = "u1"
  /\ last.conv = 1
  /\ last.status = "ok"
  /\ UnreadCount(1, "u1") = 0
  /\ UnreadCount(1, "u2") = 1
  /\ \E m \in MessagesOf(1) : messages[m].sender = "u2" /\ messages[m].is_read

\* favorites added and removed concurrently
FavNext ==
  \E p \in Procs :
    \/ \E user \in Users, product \in Products : AddFavorite(p, user, product)
    \/ FavoriteCreate(p)
    \/ \E user \in Users, product \in Products : RemoveFavorite(p, user, product)
    \/ FavoriteDelete(p)
    \/ FavoriteCount(p)
    \/ FavoriteWrite(p)

FavSpec == Init /\ [][FavNext]_vars

\* images of one product saved concurrently
ImageNext ==
  \E p \in Procs :
    \/ \E user \in Users, i \in DOMAIN images, is_primary \in BOOLEAN :
         ImageUpdate(p, user, i, is_primary)
    \/ ImageClear(p)
    \/ ImageWrite(p)

ImageSpec == Init /\ [][ImageNext]_vars

\* C29: when no favorite request is under way, favorite_count of a product
\* is the number of its ProductFavorite rows; no user has two rows for one
\* product, and the seller of a product has none for it.
C29_FavoriteCount ==
  /\ \A i, j \in DOMAIN favorites : favorites[i] = favorites[j] => i = j
  /\ \A i \in DOMAIN favorites : favorites[i].user # Seller[favorites[i].product]
  /\ (\A p \in Procs : pc[p] = "idle") =>
       \A product \in Products :
         favorite_count[product] = Cardinality(FavoritesOf(product))

\* the primary images of a product after the step
PrimaryImagesAfter(product) ==
  {i \in DOMAIN images' : images'[i].product = product /\ images'[i].is_primary}

\* C30: a product never has two primary images, and the save of an image
\* with is_primary = true leaves it the only primary image of its product.
C30_OnePrimaryImage ==
  [][/\ \A product \in Products : Cardinality(PrimaryImagesAfter(product)) <= 1
     /\ \A p \in Procs :
          (pc[p] = "i_save" /\ pc'[p] = "idle" /\ req[p].row.is_primary) =>
            PrimaryImagesAfter(req[p].row.product) = {req[p].msg}]_vars

====
